---------------------------- MODULE Spec2Model ----------------------------
(***************************************************************************)
(* A model of the SSE client of src/client.go: the wire parser             *)
(* (processEvent, trimHeader), the request builder (request), the callback *)
(* session (Subscribe), the channel session (SubscribeChan and its         *)
(* background goroutine), Unsubscribe and cleanup.                         *)
(*                                                                         *)
(* Byte slices are sequences of byte values (0..255); a Go string is the   *)
(* sequence of its bytes, so "" is <<>>.                                   *)
(***************************************************************************)
EXTENDS Integers, Sequences, FiniteSets, TLC

(***************************************************************************)
(* Bounds of the model.                                                    *)
(***************************************************************************)
\* the most lines a generated raw block has
MaxLines == 3
\* the most bytes a base64 test payload has
MaxPayload == 3

(***************************************************************************)
(* Bytes the code names.                                                   *)
(***************************************************************************)
\* data[0] == 32, the optional leading space
SP == 32
\* data[len(data)-1] == 10, and '\n'
LF == 10
\* '\r'
CR == 13
\* ":" of bytes.TrimSuffix(headerData, []byte(":"))
COLON == 58

\* "id:"
headerID == <<105, 100, COLON>>
\* "data:"
headerData == <<100, 97, 116, 97, COLON>>
\* "event:"
headerEvent == <<101, 118, 101, 110, 116, COLON>>
\* "retry:"
headerRetry == <<114, 101, 116, 114, 121, COLON>>

(***************************************************************************)
(* Helpers of package bytes, by what they do.                              *)
(***************************************************************************)
HasPrefix(s, p) == Len(s) >= Len(p) /\ SubSeq(s, 1, Len(p)) = p

HasSuffix(s, p) == Len(s) >= Len(p) /\ SubSeq(s, Len(s) - Len(p) + 1, Len(s)) = p

TrimSuffix(s, p) == IF HasSuffix(s, p) THEN SubSeq(s, 1, Len(s) - Len(p)) ELSE s

RECURSIVE fieldsFrom(_, _, _)
fieldsFrom(s, i, cur) ==
    IF i > Len(s)
    THEN (IF cur = <<>> THEN <<>> ELSE <<cur>>)
    ELSE IF s[i] = LF \/ s[i] = CR
         THEN (IF cur = <<>> THEN <<>> ELSE <<cur>>) \o fieldsFrom(s, i + 1, <<>>)
         ELSE fieldsFrom(s, i + 1, Append(cur, s[i]))

\* bytes.FieldsFunc(msg, r == '\n' || r == '\r'): the maximal runs of bytes
\* that are neither, empty runs dropped.  Each field has cap == len, so an
\* append to one never writes into msg.
FieldsFunc(s) == fieldsFrom(s, 1, <<>>)

(***************************************************************************)
(* trimHeader.  An index outside the slice is a run-time panic.            *)
(***************************************************************************)
trimHeader(size, data) ==
    LET d1 == SubSeq(data, size + 1, Len(data)) IN
    IF Len(d1) = 0
    THEN [panic |-> TRUE, val |-> <<>>]                  \* data[0]
    ELSE LET d2 == IF d1[1] = SP THEN Tail(d1) ELSE d1 IN
         IF Len(d2) = 0
         THEN [panic |-> TRUE, val |-> <<>>]             \* data[len(data)-1]
         ELSE IF d2[Len(d2)] = LF
              THEN [panic |-> FALSE, val |-> SubSeq(d2, 1, Len(d2) - 1)]
              ELSE [panic |-> FALSE, val |-> d2]

(***************************************************************************)
(* encoding/base64, StdEncoding (padded, not strict).                      *)
(***************************************************************************)
\* '='
PAD == 61

\* the decode map: the 6-bit value of an alphabet byte, -1 for any other
b64val(c) ==
    IF c >= 65 /\ c <= 90 THEN c - 65
    ELSE IF c >= 97 /\ c <= 122 THEN c - 71
    ELSE IF c >= 48 /\ c <= 57 THEN c + 4
    ELSE IF c = 43 THEN 62
    ELSE IF c = 47 THEN 63
    ELSE -1

\* the alphabet byte of a 6-bit value
b64char(v) ==
    IF v < 26 THEN 65 + v
    ELSE IF v < 52 THEN 71 + v
    ELSE IF v < 62 THEN v - 4
    ELSE IF v = 62 THEN 43
    ELSE 47

\* base64.StdEncoding.DecodedLen(n)
DecodedLen(n) == (n \div 4) * 3

RECURSIVE Base64Encode(_)
\* base64.StdEncoding.EncodeToString
Base64Encode(b) ==
    IF Len(b) = 0 THEN <<>>
    ELSE IF Len(b) = 1
    THEN <<b64char(b[1] \div 4), b64char((b[1] % 4) * 16), PAD, PAD>>
    ELSE IF Len(b) = 2
    THEN <<b64char(b[1] \div 4),
           b64char((b[1] % 4) * 16 + b[2] \div 16),
           b64char((b[2] % 16) * 4), PAD>>
    ELSE <<b64char(b[1] \div 4),
           b64char((b[1] % 4) * 16 + b[2] \div 16),
           b64char((b[2] % 16) * 4 + b[3] \div 64),
           b64char(b[3] % 64)>> \o Base64Encode(SubSeq(b, 4, Len(b)))

\* the bytes of 2, 3 or 4 six-bit values (dlen - 1 bytes)
quantumBytes(v) ==
    LET v3 == IF Len(v) >= 3 THEN v[3] ELSE 0
        v4 == IF Len(v) >= 4 THEN v[4] ELSE 0
        all == <<v[1] * 4 + v[2] \div 16,
                 (v[2] % 16) * 16 + v3 \div 4,
                 (v3 % 4) * 64 + v4>>
    IN SubSeq(all, 1, Len(v) - 1)

RECURSIVE decodeFrom(_)
\* Encoding.Decode on a source without '\r' and '\n': quantum by quantum,
\* the bytes written to dst and whether a CorruptInputError ended it.
decodeFrom(s) ==
    IF Len(s) = 0 THEN [out |-> <<>>, err |-> FALSE]
    ELSE
    LET n == IF Len(s) < 4 THEN Len(s) ELSE 4
        \* the values of the quantum's leading alphabet bytes
        k == IF b64val(s[1]) < 0 THEN 0
             ELSE IF n < 2 \/ b64val(s[2]) < 0 THEN 1
             ELSE IF n < 3 \/ b64val(s[3]) < 0 THEN 2
             ELSE IF n < 4 \/ b64val(s[4]) < 0 THEN 3
             ELSE 4
        vals == [i \in 1..k |-> b64val(s[i])]
    IN
    IF k = 4
    THEN LET rest == decodeFrom(SubSeq(s, 5, Len(s)))
         IN [out |-> quantumBytes(vals) \o rest.out, err |-> rest.err]
    ELSE IF k = Len(s)
    THEN [out |-> <<>>, err |-> TRUE]          \* the source ends inside a quantum
    ELSE IF s[k + 1] # PAD
    THEN [out |-> <<>>, err |-> TRUE]          \* a byte outside the alphabet
    ELSE IF k < 2
    THEN [out |-> <<>>, err |-> TRUE]          \* padding at position 0 or 1
    ELSE IF k = 2
    THEN IF Len(s) < 4 \/ s[4] # PAD
         THEN [out |-> <<>>, err |-> TRUE]     \* "==" expected
         ELSE [out |-> quantumBytes(vals), err |-> Len(s) > 4]
    ELSE [out |-> quantumBytes(vals), err |-> Len(s) > 4]

\* base64.StdEncoding.Decode(dst, src): '\r' and '\n' are skipped
Decode(src) == decodeFrom(SelectSeq(src, LAMBDA c : c # LF /\ c # CR))

\* make([]byte, n): n zero bytes
MakeBytes(n) == [i \in 1..n |-> 0]

\* dst after Decode wrote w into its head
Filled(dst, w) == [i \in 1..Len(dst) |-> IF i <= Len(w) THEN w[i] ELSE dst[i]]

(***************************************************************************)
(* processEvent                                                            *)
(***************************************************************************)
\* var e Event
EmptyEvent == [ID |-> <<>>, Data |-> <<>>, Event |-> <<>>, Retry |-> <<>>]

\* one iteration of the loop over the lines; st.panic once trimHeader panicked
processLine(st, line) ==
    IF st.panic THEN st
    ELSE IF HasPrefix(line, headerID)
    THEN LET t == trimHeader(Len(headerID), line) IN
         IF t.panic THEN [st EXCEPT !.panic = TRUE]
         ELSE [st EXCEPT !.e.ID = t.val]
    ELSE IF HasPrefix(line, headerData)
    THEN LET t == trimHeader(Len(headerData), line) IN
         IF t.panic THEN [st EXCEPT !.panic = TRUE]
         \* append(append(trimHeader(..), e.Data[:]...), '\n')
         ELSE [st EXCEPT !.e.Data = (t.val \o st.e.Data) \o <<LF>>]
    ELSE IF line = TrimSuffix(headerData, <<COLON>>)
    THEN [st EXCEPT !.e.Data = Append(st.e.Data, LF)]
    ELSE IF HasPrefix(line, headerEvent)
    THEN LET t == trimHeader(Len(headerEvent), line) IN
         IF t.panic THEN [st EXCEPT !.panic = TRUE]
         ELSE [st EXCEPT !.e.Event = t.val]
    ELSE IF HasPrefix(line, headerRetry)
    THEN LET t == trimHeader(Len(headerRetry), line) IN
         IF t.panic THEN [st EXCEPT !.panic = TRUE]
         ELSE [st EXCEPT !.e.Retry = t.val]
    ELSE st

RECURSIVE processLines(_, _)
processLines(st, lines) ==
    IF lines = <<>> THEN st
    ELSE processLines(processLine(st, Head(lines)), Tail(lines))

\* What processEvent returns: panic (it did not return), nil (the *Event is
\* nil), e (the Event when not nil), err ("" is a nil error).
\* bytes.Replace's result is dropped, so msg is split as it came.
\* The err of "_, err := ...Decode" is a new variable of the inner block;
\* "return &e, err" returns the named result, which nothing assigned.
processEvent(msg, base64) ==
    IF Len(msg) < 1
    THEN [panic |-> FALSE, nil |-> TRUE, e |-> EmptyEvent,
          err |-> "event message was empty"]
    ELSE
    LET st == processLines([e |-> EmptyEvent, panic |-> FALSE], FieldsFunc(msg))
        data == TrimSuffix(st.e.Data, <<LF>>)
    IN
    IF st.panic
    THEN [panic |-> TRUE, nil |-> TRUE, e |-> EmptyEvent, err |-> ""]
    ELSE IF Len(data) > 0
    THEN IF base64
         THEN LET buf == MakeBytes(DecodedLen(Len(data)))
                  dec == Decode(data)
                  innerErr == IF dec.err THEN "failed to decode event message"
                              ELSE ""
                  namedErr == ""
              IN [panic |-> FALSE, nil |-> FALSE,
                  e |-> [st.e EXCEPT !.Data = Filled(buf, dec.out)],
                  err |-> namedErr]
         ELSE [panic |-> FALSE, nil |-> FALSE,
               e |-> [st.e EXCEPT !.Data = data], err |-> ""]
    ELSE [panic |-> FALSE, nil |-> TRUE, e |-> EmptyEvent,
          err |-> "invalid event message"]

(***************************************************************************)
(* The parser's inputs: raw blocks of up to MaxLines lines, and payloads   *)
(* to send base64-encoded.                                                 *)
(***************************************************************************)
\* "data"
bareData == <<100, 97, 116, 97>>

LinePool ==
    { headerData \o <<SP, 97>>,              \* "data: a"
      headerData \o <<98>>,                  \* "data:b"
      headerData \o <<SP, 89, 81, PAD, PAD>>,\* "data: YQ==", base64 of "a"
      bareData,                              \* "data"
      headerData,                            \* "data:"
      headerID \o <<SP, 49>>,                \* "id: 1"
      headerID \o <<SP>>,                    \* "id: "
      headerEvent \o <<SP, 101>>,            \* "event: e"
      headerRetry \o <<51>>,                 \* "retry:3"
      <<102, 111, 111>> }                    \* "foo"

LineSeps == { <<LF>>, <<CR, LF>> }

RECURSIVE Join(_, _)
Join(ls, sep) ==
    IF Len(ls) = 0 THEN <<>>
    ELSE IF Len(ls) = 1 THEN ls[1]
    ELSE ls[1] \o sep \o Join(Tail(ls), sep)

Blocks ==
    { <<>> } \cup
    { Join(ls, sep) : ls \in UNION { [1..n -> LinePool] : n \in 1..MaxLines },
                      sep \in LineSeps }

PayloadBytes == { 0, 97, 255 }

Payloads == UNION { [1..n -> PayloadBytes] : n \in 1..MaxPayload }

NoReturn == [panic |-> FALSE, nil |-> TRUE, e |-> EmptyEvent, err |-> ""]

\* the most requests one subscription issues
MaxAttempts == 2
\* the most blocks the reader yields to one subscription
MaxReads == 3
\* the number of Unsubscribe calls
MaxUnsub == 2

\* the blocks the stream reader yields
StreamBlocks ==
    { headerData \o <<SP, 97>>,                                   \* "data: a"
      headerID \o <<SP, 49, LF>> \o headerData \o <<SP, 97>>,     \* "id: 1\ndata: a"
      headerID \o <<SP, 50, LF>> \o headerData \o <<98>>,         \* "id: 2\ndata:b"
      headerID \o <<SP, 49>>,                                     \* "id: 1"
      <<>>,                                                       \* an empty block
      headerData }                                                \* "data:"

VARIABLES
    \* the parser under test
    msg,              \* the block handed to processEvent
    plain,            \* the payload a sender encoded into msg, <<>> if none
    origin,           \* "raw": msg is a block of Blocks; "encoded": built by Encode
    stage,            \* "plain", "wire" (msg is ready), "done" (ret is set)
    ret,              \* what processEvent returned
    \* the Client
    EncodingBase64,   \* Client.EncodingBase64
    withRetry,        \* Client.withRetry
    EventID,          \* Client.EventID, the resumption cursor
    urlOK,            \* http.NewRequest accepts Client.URL
    subscribed,       \* Client.subscribed[ch]: "nil" (no entry), "chan" (the
                      \* channel the first SubscribeChan made) or "chan2"
                      \* (the channel a second SubscribeChan made)
    mu,               \* Client.mu: the Unsubscribe calls holding it ({} or {i})
    \* the channels
    chClosed,         \* the delivery channel ch is closed
    cancelClosed,     \* the cancellation channel "chan" is closed
    cancel2Closed,    \* the cancellation channel "chan2" is closed
    \* the goroutines
    mode,             \* "none", "parse", "callback" (Subscribe), "chan" (SubscribeChan)
    caller,           \* where the caller of Subscribe / SubscribeChan is
    task,             \* where the goroutine of SubscribeChan is
    unsub,            \* where each Unsubscribe call is
    selCancel,        \* c.subscribed[ch] as the select of the goroutine read it
    pending,          \* msg: the record parsed and stamped, about to be handed over
    opErr,            \* the error the operation last returned ("" is nil)
    retErr,           \* the error Subscribe / SubscribeChan returned
    fault,            \* the message of the panic that ended the program, or ""
    \* the environment and the history
    attempts,         \* calls of c.request so far
    reads,            \* blocks read so far
    lastReq,          \* the header of the last request built
    lastRead,         \* what ReadEvent last returned: "none", "block", "EOF", "error"
    event,            \* the block ReadEvent last returned
    okSeq,            \* this connection's records parsed with a nil error, in order
    handed,           \* this connection's records handed to the consumer, in order
    lastHanded,       \* the id of the last record handed to the consumer, if any
    cancelled         \* the goroutine's select received the cancellation signal

parseVars == <<msg, plain, origin, stage, ret>>

clientVars == <<withRetry, EventID, urlOK, subscribed, mu, chClosed,
                cancelClosed, cancel2Closed>>

procVars == <<caller, task, unsub, selCancel, pending, opErr, retErr, fault>>

histVars == <<attempts, reads, lastReq, lastRead, event, okSeq, handed,
              lastHanded, cancelled>>

sessionVars == <<clientVars, procVars, histVars>>

vars == <<parseVars, EncodingBase64, mode, sessionVars>>

\* NewClient / NewClientWithoutRetry: the registry is empty, the cursor is "",
\* the lock is free; no call has been made.  Neither constructor sets
\* withRetry, so it is false.
NewClient ==
    /\ withRetry = FALSE
    /\ EventID = <<>>
    /\ subscribed = "nil"
    /\ mu = {}

NoCalls ==
    /\ chClosed = FALSE
    /\ cancelClosed = FALSE
    /\ cancel2Closed = FALSE
    /\ fault = ""
    /\ caller = "idle"
    /\ task = "none"
    /\ unsub = [i \in 1..MaxUnsub |-> "idle"]
    /\ selCancel = "nil"
    /\ pending = EmptyEvent
    /\ opErr = ""
    /\ retErr = ""
    /\ attempts = 0
    /\ reads = 0
    /\ lastReq = [built |-> FALSE, Header |-> [h \in {} |-> <<>>]]
    /\ lastRead = "none"
    /\ event = <<>>
    /\ okSeq = <<>>
    /\ handed = <<>>
    /\ lastHanded = [any |-> FALSE, ID |-> <<>>]
    /\ cancelled = FALSE

NoParse ==
    /\ msg = <<>>
    /\ plain = <<>>
    /\ origin = "raw"
    /\ stage = "none"
    /\ ret = NoReturn

(***************************************************************************)
(* The parser under test: a block, or a payload to encode, is chosen; the  *)
(* block is parsed once.                                                   *)
(***************************************************************************)
InitParse ==
    /\ EncodingBase64 \in BOOLEAN
    /\ mode = "parse"
    /\ NewClient
    /\ urlOK = TRUE
    /\ NoCalls
    /\ ret = NoReturn
    /\ \/ /\ origin = "raw"
          /\ stage = "wire"
          /\ msg \in Blocks
          /\ plain = <<>>
       \/ /\ origin = "encoded"
          /\ stage = "plain"
          /\ msg = <<>>
          /\ plain \in Payloads

\* the sender: data: base64(plain)
Encode ==
    /\ stage = "plain"
    /\ msg' = headerData \o <<SP>> \o Base64Encode(plain)
    /\ stage' = "wire"
    /\ UNCHANGED <<EncodingBase64, mode, sessionVars, plain, origin, ret>>

CallProcessEvent ==
    /\ stage = "wire"
    /\ ret' = processEvent(msg, EncodingBase64)
    /\ stage' = "done"
    /\ UNCHANGED <<EncodingBase64, mode, sessionVars, msg, plain, origin>>

NextParse == Encode \/ CallProcessEvent

SpecParse == InitParse /\ [][NextParse]_vars

(***************************************************************************)
(* Claims about the parser.                                                *)
(***************************************************************************)
\* the fields of a block's "data:" lines, in wire order, as the protocol
\* reads them: the text after the colon less one leading space
RECURSIVE DataValues(_)
DataValues(lines) ==
    IF lines = <<>> THEN <<>>
    ELSE LET l == Head(lines)
             v == SubSeq(l, Len(headerData) + 1, Len(l))
         IN (IF HasPrefix(l, headerData)
             THEN << IF Len(v) > 0 /\ v[1] = SP THEN Tail(v) ELSE v >>
             ELSE <<>>) \o DataValues(Tail(lines))

\* every line of the block is a field with a value, or an unknown line
PlainFields(lines) ==
    \A i \in 1..Len(lines) :
        /\ lines[i] # bareData
        /\ \A h \in {headerID, headerData, headerEvent, headerRetry} :
              HasPrefix(lines[i], h) =>
                 /\ Len(lines[i]) > Len(h)
                 /\ lines[i] # Append(h, SP)

\* C1: a block with two or more data: fields yields a record whose Data is
\* the fields joined by one '\n' each, in wire order, no trailing '\n'.
C1_DataJoinedInWireOrder ==
    ( /\ stage = "done"
      /\ origin = "raw"
      /\ ~EncodingBase64
      /\ PlainFields(FieldsFunc(msg))
      /\ Len(DataValues(FieldsFunc(msg))) >= 2 )
    => /\ ~ret.panic
       /\ ~ret.nil
       /\ ret.err = ""
       /\ ret.e.Data = Join(DataValues(FieldsFunc(msg)), <<LF>>)

\* C2: a block that is only a bare "data" line yields a record with empty
\* Data and a nil error.
C2_BareDataIsEmptyRecord ==
    (stage = "done" /\ FieldsFunc(msg) = <<bareData>>)
    => /\ ~ret.panic
       /\ ~ret.nil
       /\ ret.err = ""
       /\ ret.e.Data = <<>>

\* C3: with EncodingBase64, parsing "data: base64(B)" of a non-empty B
\* returns a record whose Data is exactly B.
C3_Base64RoundTrip ==
    (stage = "done" /\ origin = "encoded" /\ EncodingBase64 /\ Len(plain) > 0)
    => /\ ~ret.panic
       /\ ~ret.nil
       /\ ret.err = ""
       /\ ret.e.Data = plain

\* the data field processEvent holds before it decodes
DataField(m) == processEvent(m, FALSE).e.Data

\* C4: with EncodingBase64, a block whose data field is non-empty and not
\* valid base64 makes processEvent return a non-nil error.
C4_DecodeErrorReturned ==
    ( /\ stage = "done"
      /\ EncodingBase64
      /\ ~ret.panic
      /\ Len(DataField(msg)) > 0
      /\ Decode(DataField(msg)).err )
    => ret.err # ""

(***************************************************************************)
(* The request builder.                                                    *)
(***************************************************************************)
\* Client.Headers as NewClient makes it: an empty map
Headers == [h \in {} |-> <<>>]

\* request without the test of c.EventID: no Last-Event-ID is ever set
request_noResume(cursor) ==
    [h \in {"Cache-Control", "Accept", "Connection"} |->
        IF h = "Cache-Control" THEN "no-cache"
        ELSE IF h = "Accept" THEN "text/event-stream"
        ELSE "keep-alive"]

\* The header of the request that request builds from the cursor: the three
\* fixed fields, Last-Event-ID if the cursor is not "", then the user's
\* Headers over them.
request(cursor) ==
    LET fixed == [h \in {"Cache-Control", "Accept", "Connection"} |->
                     IF h = "Cache-Control" THEN "no-cache"
                     ELSE IF h = "Accept" THEN "text/event-stream"
                     ELSE "keep-alive"]
        names == DOMAIN fixed
                 \cup (IF cursor # <<>> THEN {"Last-Event-ID"} ELSE {})
                 \cup DOMAIN Headers
    IN [h \in names |->
           IF h \in DOMAIN Headers THEN Headers[h]
           ELSE IF h = "Last-Event-ID" THEN cursor
           ELSE fixed[h]]

(***************************************************************************)
(* The read loop's body, the same in Subscribe and in the goroutine of     *)
(* SubscribeChan.                                                          *)
(***************************************************************************)
\* the loop body without "c.EventID = string(msg.ID)"
stampID_keepsCursor(cursor, m) ==
    IF Len(m.ID) > 0
    THEN [EventID |-> cursor, msg |-> m]
    ELSE [EventID |-> cursor, msg |-> [m EXCEPT !.ID = cursor]]

\* if len(msg.ID) > 0 { c.EventID = string(msg.ID) } else { msg.ID = []byte(c.EventID) }
stampID(cursor, m) ==
    IF Len(m.ID) > 0
    THEN [EventID |-> m.ID, msg |-> m]
    ELSE [EventID |-> cursor, msg |-> [m EXCEPT !.ID = cursor]]

\* the loop body without the test of err
parsedOK_ignoresErr(r) == ~r.panic

\* "if msg, err := c.processEvent(event); err == nil": the record goes on to
\* the consumer
parsedOK(r) == ~r.panic /\ r.err = ""

\* a panic that nothing recovers ends the program
Crashed == caller = "panicked" \/ task = "panicked"

\* what ReadEvent returns besides a block
ReadEnds == {"EOF", "error"}

\* the operation without the test of io.EOF
cbReadError_eofIsError(e) == "read error"

\* what Subscribe's operation returns when ReadEvent returns an error:
\* if err == io.EOF { return nil }; return err
cbReadError(e) == IF e = "EOF" THEN "" ELSE "read error"

\* cleanup without delete(c.subscribed, ch)
cleanup_keepsEntry(reg) ==
    IF reg.subscribed = "nil"
    THEN reg
    ELSE LET closed == [reg EXCEPT
                           !.cancelClosed = @ \/ reg.subscribed = "chan",
                           !.cancel2Closed = @ \/ reg.subscribed = "chan2"]
         IN IF reg.chClosed
            THEN [closed EXCEPT !.panic = TRUE]
            ELSE [closed EXCEPT !.chClosed = TRUE]

(***************************************************************************)
(* cleanup: under the lock, if the registry has an entry, close the        *)
(* cancellation channel and the delivery channel and delete the entry.     *)
(* close(ch) of a channel already closed panics: the entry's cancellation  *)
(* channel is closed by then, the entry is not deleted.                    *)
(***************************************************************************)
cleanup(reg) ==
    IF reg.subscribed = "nil"
    THEN reg
    ELSE LET closed == [reg EXCEPT
                           !.cancelClosed = @ \/ reg.subscribed = "chan",
                           !.cancel2Closed = @ \/ reg.subscribed = "chan2"]
         IN IF reg.chClosed
            THEN [closed EXCEPT !.panic = TRUE]
            ELSE [closed EXCEPT !.chClosed = TRUE, !.subscribed = "nil"]

Registry == [subscribed |-> subscribed, chClosed |-> chClosed,
             cancelClosed |-> cancelClosed, cancel2Closed |-> cancel2Closed,
             panic |-> FALSE]

\* "if c.subscribed[ch] != nil" of Unsubscribe, taken for true
hasEntry_always(entry) == TRUE

\* "if c.subscribed[ch] != nil" of Unsubscribe
hasEntry(entry) == entry # "nil"

\* no Unsubscribe call is between its call and its return
NoUnsubscribeRunning == \A i \in 1..MaxUnsub : unsub[i] \in {"idle", "returned"}

(***************************************************************************)
(* Subscribe (callback mode).                                              *)
(***************************************************************************)
Subscribe ==
    /\ mode = "none"
    /\ caller = "idle"
    /\ NoUnsubscribeRunning
    /\ mode' = "callback"
    /\ caller' = "cb_request"
    /\ UNCHANGED <<parseVars, EncodingBase64, clientVars, histVars,
                   task, unsub, selCancel, pending, opErr, retErr, fault>>

\* the operation's c.request(stream): http.NewRequest fails on a URL it
\* cannot parse and nothing is built; otherwise the request is built from
\* the cursor and sent.  Subscribe does not look at the status.
CbRequest ==
    /\ ~Crashed
    /\ caller = "cb_request"
    /\ attempts' = attempts + 1
    /\ \/ /\ urlOK
          /\ lastReq' = [built |-> TRUE, Header |-> request(EventID)]
          /\ caller' = "cb_read"
          /\ okSeq' = <<>>
          /\ handed' = <<>>
          /\ UNCHANGED opErr
       \/ /\ urlOK
          /\ lastReq' = [built |-> TRUE, Header |-> request(EventID)]
          /\ caller' = "cb_backoff"
          /\ opErr' = "request failed"
          /\ UNCHANGED <<okSeq, handed>>
       \/ /\ ~urlOK
          /\ caller' = "cb_backoff"
          /\ opErr' = "malformed URL"
          /\ UNCHANGED <<lastReq, okSeq, handed>>
    /\ UNCHANGED <<parseVars, EncodingBase64, mode, clientVars, task, unsub,
                   selCancel, pending, retErr, fault, reads, lastRead, event,
                   lastHanded, cancelled>>

\* reader.ReadEvent() and, for a block, processEvent
CbRead ==
    /\ ~Crashed
    /\ caller = "cb_read"
    /\ \/ \E b \in StreamBlocks :
             LET r == processEvent(b, EncodingBase64)
                 s == stampID(EventID, r.e)
             IN /\ reads < MaxReads
                /\ reads' = reads + 1
                /\ lastRead' = "block"
                /\ event' = b
                /\ IF r.panic
                   THEN /\ caller' = "panicked"
                        /\ fault' = "index out of range"
                        /\ UNCHANGED <<EventID, pending, okSeq>>
                   ELSE IF parsedOK(r)
                   THEN /\ EventID' = s.EventID
                        /\ pending' = s.msg
                        /\ okSeq' = Append(okSeq, s.msg)
                        /\ caller' = "cb_handler"
                        /\ UNCHANGED fault
                   ELSE UNCHANGED <<EventID, pending, okSeq, caller, fault>>
                /\ UNCHANGED <<opErr, retErr>>
       \/ \E e \in ReadEnds :
             /\ lastRead' = e
             /\ IF cbReadError(e) = ""
                THEN /\ caller' = "returned"    \* backoff.Retry returns nil
                     /\ retErr' = ""
                     /\ UNCHANGED opErr
                ELSE /\ caller' = "cb_backoff"
                     /\ opErr' = cbReadError(e)
                     /\ UNCHANGED retErr
             /\ UNCHANGED <<EventID, pending, okSeq, reads, event, fault>>
    /\ UNCHANGED <<parseVars, EncodingBase64, mode, withRetry, urlOK,
                   subscribed, mu, chClosed, cancelClosed, cancel2Closed,
                   task, unsub, selCancel, attempts, lastReq, handed,
                   lastHanded, cancelled>>

\* handler(msg)
CbHandler ==
    /\ ~Crashed
    /\ caller = "cb_handler"
    /\ handed' = Append(handed, pending)
    /\ lastHanded' = [any |-> TRUE, ID |-> pending.ID]
    /\ caller' = "cb_read"
    /\ UNCHANGED <<parseVars, EncodingBase64, mode, clientVars, task, unsub,
                   selCancel, pending, opErr, retErr, fault, attempts, reads,
                   lastReq, lastRead, event, okSeq, cancelled>>

\* backoff.Retry after the operation returned an error: it runs the
\* operation again, or gives up (the backoff's MaxElapsedTime) and returns
\* the error
CbBackoff ==
    /\ ~Crashed
    /\ caller = "cb_backoff"
    /\ \/ /\ attempts < MaxAttempts
          /\ caller' = "cb_request"
          /\ UNCHANGED retErr
       \/ /\ caller' = "returned"
          /\ retErr' = opErr
    /\ UNCHANGED <<parseVars, EncodingBase64, mode, clientVars, histVars,
                   task, unsub, selCancel, pending, opErr, fault>>

(***************************************************************************)
(* SubscribeChan (channel mode).                                           *)
(***************************************************************************)
\* c.subscribed[ch] = make(chan bool), outside the lock.  The Unsubscribe
\* calls made on the fresh client have returned by the time of this first
\* insert; a second SubscribeChan, whose insert runs beside other goroutines,
\* is Ch2Insert.
SubscribeChan ==
    /\ mode = "none"
    /\ caller = "idle"
    /\ NoUnsubscribeRunning
    /\ mode' = "chan"
    /\ subscribed' = "chan"
    /\ caller' = "ch_request"
    /\ UNCHANGED <<parseVars, EncodingBase64, withRetry, EventID, urlOK, mu,
                   chClosed, cancelClosed, cancel2Closed, histVars, task,
                   unsub, selCancel, pending, opErr, retErr, fault>>

\* the operation up to its return: c.request(stream), the status test, and
\* on success the go statement.  On a failure the operation goes on to
\* cleanup; on success it returns a nil error, which ends backoff.Retry too.
ChRequest ==
    /\ ~Crashed
    /\ caller = "ch_request"
    /\ attempts' = attempts + 1
    /\ \/ /\ ~urlOK
          /\ opErr' = "malformed URL"
          /\ caller' = "ch_cleanup"
          /\ UNCHANGED <<lastReq, task, retErr, okSeq, handed>>
       \/ /\ urlOK
          /\ lastReq' = [built |-> TRUE, Header |-> request(EventID)]
          /\ opErr' = "request failed"
          /\ caller' = "ch_cleanup"
          /\ UNCHANGED <<task, retErr, okSeq, handed>>
       \/ /\ urlOK
          /\ lastReq' = [built |-> TRUE, Header |-> request(EventID)]
          /\ opErr' = "could not connect to stream"
          /\ caller' = "ch_cleanup"
          /\ UNCHANGED <<task, retErr, okSeq, handed>>
       \/ /\ urlOK
          /\ lastReq' = [built |-> TRUE, Header |-> request(EventID)]
          /\ task' = "read"
          /\ okSeq' = <<>>
          /\ handed' = <<>>
          /\ caller' = "returned"
          /\ retErr' = ""
          /\ UNCHANGED opErr
    /\ UNCHANGED <<parseVars, EncodingBase64, mode, clientVars, unsub,
                   selCancel, pending, fault, reads, lastRead, event,
                   lastHanded, cancelled>>

\* c.cleanup(resp, ch) of a failed attempt, from c.mu.Lock() on, and the
\* operation's return: to the caller, or to backoff.Retry
ChCleanup ==
    /\ ~Crashed
    /\ caller = "ch_cleanup"
    /\ mu = {}
    /\ LET reg == cleanup(Registry)
       IN /\ subscribed' = reg.subscribed
          /\ chClosed' = reg.chClosed
          /\ cancelClosed' = reg.cancelClosed
          /\ cancel2Closed' = reg.cancel2Closed
          /\ IF reg.panic
             THEN /\ caller' = "panicked"
                  /\ fault' = "close of closed channel"
                  /\ UNCHANGED retErr
             ELSE /\ IF withRetry
                     THEN caller' = "ch_backoff" /\ UNCHANGED retErr
                     ELSE caller' = "returned" /\ retErr' = opErr
                  /\ UNCHANGED fault
    /\ UNCHANGED <<parseVars, EncodingBase64, mode, withRetry, EventID, urlOK,
                   mu, histVars, task, unsub, selCancel, pending, opErr>>

\* backoff.Retry of SubscribeChan (withRetry) after a failed attempt
ChBackoff ==
    /\ ~Crashed
    /\ caller = "ch_backoff"
    /\ \/ /\ attempts < MaxAttempts
          /\ caller' = "ch_request"
          /\ UNCHANGED retErr
       \/ /\ caller' = "returned"
          /\ retErr' = opErr
    /\ UNCHANGED <<parseVars, EncodingBase64, mode, clientVars, histVars,
                   task, unsub, selCancel, pending, opErr, fault>>

(***************************************************************************)
(* The goroutine of SubscribeChan.                                         *)
(***************************************************************************)
\* reader.ReadEvent(), processEvent, and for a record the evaluation of the
\* select's channels: c.subscribed[ch], read outside the lock
TaskRead ==
    /\ ~Crashed
    /\ task = "read"
    /\ \/ \E b \in StreamBlocks :
             LET r == processEvent(b, EncodingBase64)
                 s == stampID(EventID, r.e)
             IN /\ reads < MaxReads
                /\ reads' = reads + 1
                /\ lastRead' = "block"
                /\ event' = b
                /\ IF r.panic
                   THEN /\ task' = "panicked"
                        /\ fault' = "index out of range"
                        /\ UNCHANGED <<EventID, pending, okSeq, selCancel>>
                   ELSE IF parsedOK(r)
                   THEN /\ EventID' = s.EventID
                        /\ pending' = s.msg
                        /\ okSeq' = Append(okSeq, s.msg)
                        /\ selCancel' = subscribed
                        /\ task' = "select"
                        /\ UNCHANGED fault
                   ELSE UNCHANGED <<EventID, pending, okSeq, selCancel, task,
                                    fault>>
       \/ \E e \in ReadEnds :            \* if err != nil { c.cleanup; return }
             /\ lastRead' = e
             /\ task' = "cleanup"
             /\ UNCHANGED <<EventID, pending, okSeq, selCancel, reads, event,
                            fault>>
    /\ UNCHANGED <<parseVars, EncodingBase64, mode, withRetry, urlOK,
                   subscribed, mu, chClosed, cancelClosed, cancel2Closed,
                   caller, unsub, opErr, retErr, attempts, lastReq, handed,
                   lastHanded, cancelled>>

\* case ch <- msg, with the consumer receiving
Deliver ==
    /\ ~Crashed
    /\ task = "select"
    /\ ~chClosed
    /\ handed' = Append(handed, pending)
    /\ lastHanded' = [any |-> TRUE, ID |-> pending.ID]
    /\ task' = "read"
    /\ UNCHANGED <<parseVars, EncodingBase64, mode, clientVars, caller, unsub,
                   selCancel, pending, opErr, retErr, fault, attempts, reads,
                   lastReq, lastRead, event, okSeq, cancelled>>

\* case ch <- msg on a closed channel: the send panics
SendOnClosed ==
    /\ ~Crashed
    /\ task = "select"
    /\ chClosed
    /\ task' = "panicked"
    /\ fault' = "send on closed channel"
    /\ UNCHANGED <<parseVars, EncodingBase64, mode, clientVars, histVars,
                   caller, unsub, selCancel, pending, opErr, retErr>>

\* case <-c.subscribed[ch], with Unsubscribe call i sending: the goroutine
\* goes on to cleanup, the Unsubscribe call to its deferred Unlock
RecvCancel(i) ==
    /\ ~Crashed
    /\ task = "select"
    /\ selCancel = "chan"
    /\ unsub[i] = "send"
    /\ task' = "cleanup"
    /\ cancelled' = TRUE
    /\ unsub' = [unsub EXCEPT ![i] = "sent"]
    /\ UNCHANGED <<parseVars, EncodingBase64, mode, clientVars, caller,
                   selCancel, pending, opErr, retErr, fault, attempts, reads,
                   lastReq, lastRead, event, okSeq, handed, lastHanded>>

\* c.cleanup(resp, ch) of the goroutine, from c.mu.Lock() on, and its return
TaskCleanup ==
    /\ ~Crashed
    /\ task = "cleanup"
    /\ mu = {}
    /\ LET reg == cleanup(Registry)
       IN /\ subscribed' = reg.subscribed
          /\ chClosed' = reg.chClosed
          /\ cancelClosed' = reg.cancelClosed
          /\ cancel2Closed' = reg.cancel2Closed
          /\ IF reg.panic
             THEN task' = "panicked" /\ fault' = "close of closed channel"
             ELSE task' = "done" /\ UNCHANGED fault
    /\ UNCHANGED <<parseVars, EncodingBase64, mode, withRetry, EventID, urlOK,
                   mu, histVars, caller, unsub, selCancel, pending, opErr,
                   retErr>>

(***************************************************************************)
(* Unsubscribe.                                                            *)
(***************************************************************************)
\* Unsubscribe(ch) is called: before any subscription was made, or on a
\* client in channel mode
UnsubscribeCall(i) ==
    /\ ~Crashed
    /\ mode \in {"none", "chan"}
    /\ unsub[i] = "idle"
    /\ unsub' = [unsub EXCEPT ![i] = "lock"]
    /\ UNCHANGED <<parseVars, EncodingBase64, mode, clientVars, histVars,
                   caller, task, selCancel, pending, opErr, retErr, fault>>

\* c.mu.Lock() and the test of c.subscribed[ch]: with no entry the call
\* unlocks and returns; with one it starts "c.subscribed[ch] <- true",
\* holding the lock
UnsubscribeLock(i) ==
    /\ ~Crashed
    /\ unsub[i] = "lock"
    /\ mu = {}
    /\ IF hasEntry(subscribed)
       THEN /\ mu' = {i}
            /\ unsub' = [unsub EXCEPT ![i] = IF subscribed = "chan2"
                                             THEN "send2" ELSE "send"]
       ELSE /\ mu' = {}
            /\ unsub' = [unsub EXCEPT ![i] = "returned"]
    /\ UNCHANGED <<parseVars, EncodingBase64, mode, withRetry, EventID, urlOK,
                   subscribed, chClosed, cancelClosed, cancel2Closed,
                   histVars, caller, task, selCancel, pending, opErr, retErr,
                   fault>>

\* the deferred c.mu.Unlock() once the send completed
UnsubscribeReturn(i) ==
    /\ ~Crashed
    /\ unsub[i] = "sent"
    /\ mu' = mu \ {i}
    /\ unsub' = [unsub EXCEPT ![i] = "returned"]
    /\ UNCHANGED <<parseVars, EncodingBase64, mode, withRetry, EventID, urlOK,
                   subscribed, chClosed, cancelClosed, cancel2Closed,
                   histVars, caller, task, selCancel, pending, opErr, retErr,
                   fault>>

(***************************************************************************)
(* One client, one subscription: Subscribe with a handler, or SubscribeChan*)
(* on a channel ch with its goroutine, a consumer receiving from ch, and   *)
(* MaxUnsub concurrent Unsubscribe(ch) calls.  withRetry is a field no     *)
(* constructor sets; it is modelled with both values, as code of the       *)
(* package may set it.                                                     *)
(***************************************************************************)
Init ==
    /\ EncodingBase64 \in BOOLEAN
    /\ mode = "none"
    /\ withRetry \in BOOLEAN
    /\ urlOK \in BOOLEAN
    /\ EventID = <<>>
    /\ subscribed = "nil"
    /\ mu = {}
    /\ NoCalls
    /\ NoParse

Next ==
    \/ Subscribe \/ CbRequest \/ CbRead \/ CbHandler \/ CbBackoff
    \/ SubscribeChan \/ ChRequest \/ ChCleanup \/ ChBackoff
    \/ TaskRead \/ Deliver \/ SendOnClosed \/ TaskCleanup
    \/ \E i \in 1..MaxUnsub :
          \/ RecvCancel(i)
          \/ UnsubscribeCall(i)
          \/ UnsubscribeLock(i)
          \/ UnsubscribeReturn(i)

Spec == Init /\ [][Next]_vars

\* The scheduler runs every goroutine that can take a step: the cleanups
\* once the lock is free, the Unsubscribe calls, the handler call and the
\* retry policy.  Nothing is assumed of the reader or of the consumer.
Fairness ==
    /\ WF_vars(TaskCleanup)
    /\ WF_vars(ChCleanup)
    /\ WF_vars(ChBackoff)
    /\ WF_vars(SendOnClosed)
    /\ \A i \in 1..MaxUnsub :
          /\ WF_vars(UnsubscribeLock(i))
          /\ WF_vars(UnsubscribeReturn(i))
          /\ WF_vars(RecvCancel(i))

FairSpec == Spec /\ Fairness

(***************************************************************************)
(* Claims about the sessions.                                              *)
(***************************************************************************)
\* what processEvent returns for the block just read
ReadResult == processEvent(event', EncodingBase64)

\* the step read a block
ReadsBlock == reads' = reads + 1

\* the step handed a record to the consumer: the handler was invoked, or
\* the send on ch completed
HandsOver == Len(handed') = Len(handed) + 1

\* C5: in both modes, a record parsed with a nil error that carries an id
\* sets the cursor to that id before it is handed over; one that carries
\* none is handed over with the cursor as its id, and the cursor stays.
C5_CursorAndStamp ==
    [][ /\ (ReadsBlock /\ ~ReadResult.panic /\ ReadResult.err = "") =>
              IF Len(ReadResult.e.ID) > 0
              THEN /\ EventID' = ReadResult.e.ID
                   /\ pending' = ReadResult.e
              ELSE /\ EventID' = EventID
                   /\ pending' = [ReadResult.e EXCEPT !.ID = EventID]
        /\ HandsOver =>
              /\ handed'[Len(handed')] = pending
              /\ pending.ID = EventID
              /\ EventID' = EventID ]_vars

\* in channel mode a record with an id, then one without, were handed over
C5_Witness ==
    /\ mode = "chan"
    /\ Len(handed) = 2
    /\ handed[1].ID = <<50>>
    /\ event = headerData \o <<SP, 97>>
    /\ handed[2].ID = <<50>>
    /\ EventID = <<50>>

\* C6: in callback mode, the request of a retry after a reader error
\* carries the id of the last record handed to the handler as Last-Event-ID
\* (no such header if that id is empty), and no step between two attempts
\* changes the cursor.
C6_RetryResumesFromLastHanded ==
    [][ mode = "callback" =>
          /\ ( /\ attempts' = attempts + 1
               /\ attempts >= 1
               /\ opErr = "read error"
               /\ lastHanded.any ) =>
                 IF lastHanded.ID = <<>>
                 THEN "Last-Event-ID" \notin DOMAIN lastReq'.Header
                 ELSE /\ "Last-Event-ID" \in DOMAIN lastReq'.Header
                      /\ lastReq'.Header["Last-Event-ID"] = lastHanded.ID
          /\ caller \in {"cb_backoff", "cb_request"} => EventID' = EventID ]_vars

\* a retry after a reader error was sent with the last handed id
C6_Witness ==
    /\ mode = "callback"
    /\ attempts = 2
    /\ opErr = "read error"
    /\ caller = "cb_read"
    /\ handed = <<>>
    /\ lastHanded.any
    /\ lastHanded.ID = <<49>>
    /\ "Last-Event-ID" \in DOMAIN lastReq.Header
    /\ lastReq.Header["Last-Event-ID"] = <<49>>

\* C7: once the goroutine's select has received the cancellation signal,
\* the delivery channel is eventually closed and the registry eventually
\* has no entry for it, whatever other Unsubscribe calls run.
C7_CancelLeadsToClose ==
    cancelled ~> (chClosed /\ subscribed = "nil")

\* C8: in callback mode end-of-stream ends Subscribe with a nil error, with
\* no further request and no further handler call; only a reader error
\* other than end-of-stream, or a failed request, leads to a retry.
C8_EOFTerminates ==
    [][ mode = "callback" =>
          /\ (caller = "cb_read" /\ lastRead' = "EOF") =>
                (caller' = "returned" /\ retErr' = "")
          /\ caller = "returned" =>
                UNCHANGED <<caller, retErr, attempts, reads, handed, EventID>>
          /\ (caller' = "cb_backoff" /\ caller # "cb_backoff") =>
                \/ caller = "cb_read" /\ lastRead' = "error"
                \/ caller = "cb_request" ]_vars

\* Subscribe returned nil at end-of-stream, after a handler call
C8_Witness ==
    /\ mode = "callback"
    /\ caller = "returned"
    /\ lastRead = "EOF"
    /\ retErr = ""
    /\ Len(handed) > 0

\* a record is parsed and not yet handed over
InFlight == caller = "cb_handler" \/ task = "select"

\* C9 as stated: whenever no record is in flight, the records handed to the
\* consumer in this connection are exactly those parsed with a nil error.
C9_HandedExactlyParsed ==
    (mode \in {"callback", "chan"} /\ ~InFlight /\ ~Crashed) => handed = okSeq

\* the records handed over, against those parsed with a nil error
HandedUpToLast ==
    IF InFlight \/ cancelled
    THEN okSeq = Append(handed, pending)
    ELSE IF Crashed
    THEN handed = okSeq \/ okSeq = Append(handed, pending)
    ELSE handed = okSeq

\* C9, amended: in each connection the records handed to the consumer are,
\* in order, those of the blocks parsed with a nil error, less at most the
\* last one, whose send did not complete; a block whose parse returned an
\* error is not handed over or reported, leaves the cursor alone, and the
\* loop reads on.
C9_HandedInOrderFailedSkipped ==
    /\ HandedUpToLast
    /\ [][ /\ HandedUpToLast'
           /\ (ReadsBlock /\ ~ReadResult.panic /\ ReadResult.err # "") =>
                 /\ handed' = handed
                 /\ okSeq' = okSeq
                 /\ EventID' = EventID
                 /\ pending' = pending
                 /\ caller' = caller
                 /\ task' = task
                 /\ opErr' = opErr
                 /\ retErr' = retErr ]_vars

\* in one connection a block failed to parse, with records handed over
\* before it and the loop reading on
C9_Witness ==
    /\ mode = "chan"
    /\ attempts = 1
    /\ task = "read"
    /\ lastRead = "block"
    /\ event = headerID \o <<SP, 49>>
    /\ Len(handed) = 2
    /\ handed = okSeq
    /\ EventID = <<50>>

\* C10: in channel mode without retries, a failed first attempt makes
\* SubscribeChan return a non-nil error, with no goroutine started, no
\* second attempt, no registry entry and the delivery channel closed.
C10_FirstFailureReturned ==
    (mode = "chan" /\ ~withRetry /\ caller = "returned" /\ opErr # "")
    => /\ retErr # ""
       /\ task = "none"
       /\ attempts = 1
       /\ subscribed = "nil"
       /\ chClosed

\* SubscribeChan returned the error of a refused first attempt
C10_Witness ==
    /\ mode = "chan"
    /\ ~withRetry
    /\ caller = "returned"
    /\ retErr = "could not connect to stream"
    /\ attempts = 1
    /\ chClosed

\* C11: when http.NewRequest rejects the URL, Subscribe and SubscribeChan of
\* a client as the constructors make it return that error after the first
\* call of the operation: the operation is not called a second time.
C11_ConstructionErrorNotRetried ==
    (~urlOK /\ ~withRetry)
    => /\ attempts <= 1
       /\ (caller = "returned" => retErr = "malformed URL")

\* C12: in channel mode with retries enabled, a subscription whose goroutine
\* has ended was ended by end-of-stream or by cancellation: a reader error
\* leads to a new connection attempt, not to the end of the subscription.
C12_OnlyEOFOrCancelEnds ==
    (mode = "chan" /\ withRetry /\ task = "done")
    => (lastRead = "EOF" \/ cancelled)

\* C13: an Unsubscribe call that takes the lock and finds no entry for the
\* channel returns at once: it sends on no channel, closes none, and leaves
\* the registry, the lock, the goroutine, the caller and the other
\* Unsubscribe calls as they were.
C13_UnsubscribeNoEntryIsNoOp ==
    [][\A i \in 1..MaxUnsub :
          (unsub[i] = "lock" /\ unsub'[i] # "lock" /\ subscribed = "nil")
          => /\ unsub'[i] = "returned"
             /\ \A j \in 1..MaxUnsub \ {i} : unsub'[j] = unsub[j]
             /\ UNCHANGED <<subscribed, mu, chClosed, cancelClosed,
                            cancel2Closed, caller, task, selCancel, pending,
                            EventID, cancelled, handed, fault>>]_vars

\* the subscription was cancelled by one Unsubscribe call and cleaned up, and
\* the other call, which found no entry, returned as well
C13_Witness ==
    /\ mode = "chan"
    /\ task = "done"
    /\ cancelled
    /\ subscribed = "nil"
    /\ mu = {}
    /\ \A i \in 1..MaxUnsub : unsub[i] = "returned"

\* C14: with concurrent Unsubscribe calls on one subscription, no
\* Unsubscribe call holds the lock, blocked on its send, while the goroutine
\* waits for the lock in cleanup.
C14_NoLockedSendWhileTaskWaits ==
    ~(\E i \in 1..MaxUnsub :
         /\ unsub[i] = "send"
         /\ mu = {i}
         /\ task = "cleanup")

\* C15: no Unsubscribe call holds the lock while it is blocked on the send
\* on the cancellation channel (no receiver is at the select).
C15_NoLockAcrossChannelOp ==
    \A i \in mu : ~(unsub[i] = "send" /\ task # "select")

\* the subscription is over: Subscribe returned, or the goroutine of
\* SubscribeChan finished
Ended ==
    \/ mode = "callback" /\ caller = "returned"
    \/ mode = "chan" /\ task = "done"

\* the next step of the caller builds a request
AboutToRequest == caller \in {"cb_request", "ch_request"}

\* C18: when a request is about to be built and when a subscription has
\* ended, the cursor is "" or the id of the last record handed to a consumer;
\* a record that lost the select to the cancellation leaves the cursor alone.
C18_CursorIsLastHanded ==
    (AboutToRequest \/ Ended)
    => \/ EventID = <<>>
       \/ lastHanded.any /\ EventID = lastHanded.ID

\* C19: processEvent returns a record or an error for every non-empty
\* block: no block makes trimHeader index outside its slice.
C19_ParserTotal ==
    (mode = "parse" /\ stage = "done" /\ Len(msg) > 0) => ~ret.panic

(***************************************************************************)
(* A second SubscribeChan on the same client and the same delivery channel.*)
(* The goroutine that made the first call makes it once that call has      *)
(* returned, whether it failed or left its goroutine running.  The client  *)
(* is one without retries, as the constructors make it.                    *)
(***************************************************************************)
Ch2Call ==
    /\ ~Crashed
    /\ mode = "chan"
    /\ ~withRetry
    /\ caller = "returned"
    /\ caller' = "ch2_insert"
    /\ UNCHANGED <<parseVars, EncodingBase64, mode, clientVars, histVars,
                   task, unsub, selCancel, pending, opErr, retErr, fault>>

\* c.subscribed[ch] = make(chan bool), outside the lock: the new channel
\* takes the place of the entry the map may hold
Ch2Insert ==
    /\ ~Crashed
    /\ caller = "ch2_insert"
    /\ subscribed' = "chan2"
    /\ caller' = "ch2_request"
    /\ UNCHANGED <<parseVars, EncodingBase64, mode, withRetry, EventID, urlOK,
                   mu, chClosed, cancelClosed, cancel2Closed, histVars, task,
                   unsub, selCancel, pending, opErr, retErr, fault>>

\* another goroutine is at an access of the map that the lock does not keep
\* away from the insert: an Unsubscribe call or a cleanup about to take the
\* free lock
AtLockedAccess ==
    /\ mu = {}
    /\ \/ \E i \in 1..MaxUnsub : unsub[i] = "lock"
       \/ task = "cleanup"

\* the insert runs at the same time as that access: the Go runtime stops the
\* program ("fatal error: concurrent map read and map write", or "concurrent
\* map writes")
MapRace ==
    /\ ~Crashed
    /\ caller = "ch2_insert"
    /\ AtLockedAccess
    /\ caller' = "panicked"
    /\ fault' = "concurrent map access"
    /\ UNCHANGED <<parseVars, EncodingBase64, mode, clientVars, histVars,
                   task, unsub, selCancel, pending, opErr, retErr>>

\* the operation of the second call.  The server accepts a second
\* connection only when the first one is over: while the first goroutine
\* runs, the attempt fails.
Ch2Request ==
    /\ ~Crashed
    /\ caller = "ch2_request"
    /\ urlOK
    /\ attempts' = attempts + 1
    /\ lastReq' = [built |-> TRUE, Header |-> request(EventID)]
    /\ \/ /\ opErr' = "request failed"
          /\ caller' = "ch2_cleanup"
          /\ UNCHANGED <<task, retErr, okSeq, handed>>
       \/ /\ opErr' = "could not connect to stream"
          /\ caller' = "ch2_cleanup"
          /\ UNCHANGED <<task, retErr, okSeq, handed>>
       \/ /\ task \in {"none", "done"}
          /\ task' = "read"
          /\ okSeq' = <<>>
          /\ handed' = <<>>
          /\ caller' = "returned2"
          /\ retErr' = ""
          /\ UNCHANGED opErr
    /\ UNCHANGED <<parseVars, EncodingBase64, mode, clientVars, unsub,
                   selCancel, pending, fault, reads, lastRead, event,
                   lastHanded, cancelled>>

\* c.cleanup(resp, ch) of the second call's failed attempt, and its return
Ch2Cleanup ==
    /\ ~Crashed
    /\ caller = "ch2_cleanup"
    /\ mu = {}
    /\ LET reg == cleanup(Registry)
       IN /\ subscribed' = reg.subscribed
          /\ chClosed' = reg.chClosed
          /\ cancelClosed' = reg.cancelClosed
          /\ cancel2Closed' = reg.cancel2Closed
          /\ IF reg.panic
             THEN /\ caller' = "panicked"
                  /\ fault' = "close of closed channel"
                  /\ UNCHANGED retErr
             ELSE /\ caller' = "returned2"
                  /\ retErr' = opErr
                  /\ UNCHANGED fault
    /\ UNCHANGED <<parseVars, EncodingBase64, mode, withRetry, EventID, urlOK,
                   mu, histVars, task, unsub, selCancel, pending, opErr>>

\* case <-c.subscribed[ch] on the second call's channel, with Unsubscribe
\* call i sending on it
RecvCancel2(i) ==
    /\ ~Crashed
    /\ task = "select"
    /\ selCancel = "chan2"
    /\ unsub[i] = "send2"
    /\ task' = "cleanup"
    /\ cancelled' = TRUE
    /\ unsub' = [unsub EXCEPT ![i] = "sent"]
    /\ UNCHANGED <<parseVars, EncodingBase64, mode, clientVars, caller,
                   selCancel, pending, opErr, retErr, fault, attempts, reads,
                   lastReq, lastRead, event, okSeq, handed, lastHanded>>

\* case <-c.subscribed[ch] on a channel a cleanup closed since the select
\* read it from the map: the receive completes at once
RecvClosed ==
    /\ ~Crashed
    /\ task = "select"
    /\ \/ selCancel = "chan" /\ cancelClosed
       \/ selCancel = "chan2" /\ cancel2Closed
    /\ task' = "cleanup"
    /\ UNCHANGED <<parseVars, EncodingBase64, mode, clientVars, histVars,
                   caller, unsub, selCancel, pending, opErr, retErr, fault>>

InitMulti ==
    /\ EncodingBase64 = FALSE
    /\ mode = "none"
    /\ NewClient
    /\ urlOK = TRUE
    /\ NoCalls
    /\ NoParse

NextMulti ==
    \/ SubscribeChan \/ ChRequest \/ ChCleanup
    \/ TaskRead \/ Deliver \/ SendOnClosed \/ TaskCleanup
    \/ Ch2Call \/ Ch2Insert \/ MapRace \/ Ch2Request \/ Ch2Cleanup
    \/ RecvClosed
    \/ \E i \in 1..MaxUnsub :
          \/ RecvCancel(i)
          \/ RecvCancel2(i)
          \/ UnsubscribeCall(i)
          \/ UnsubscribeLock(i)
          \/ UnsubscribeReturn(i)

SpecMulti == InitMulti /\ [][NextMulti]_vars

\* C16: the accesses of the registry map exclude one another: SubscribeChan
\* is never at its insert while an Unsubscribe call is at its lookup, or a
\* cleanup at its delete, with nothing to keep the two apart.
C16_RegistryAccessesExcluded ==
    ~(caller = "ch2_insert" /\ AtLockedAccess)

\* the second SubscribeChan has made its cancellation channel
Made2 == caller \in {"ch2_request", "ch2_cleanup", "returned2"}

\* C17: no channel is closed twice, and whenever the entry of the delivery
\* channel has been removed, the delivery channel and every cancellation
\* channel made for it are closed.
C17_RemovedWithBothClosed ==
    /\ fault # "close of closed channel"
    /\ (mode = "chan" /\ subscribed = "nil")
       => /\ chClosed
          /\ cancelClosed
          /\ Made2 => cancel2Closed

\* C20: the goroutine never sends on a delivery channel that is closed, and
\* no Unsubscribe call is sending on a cancellation channel that is closed.
C20_NoSendOnClosed ==
    /\ fault # "send on closed channel"
    /\ \A i \in 1..MaxUnsub :
          /\ unsub[i] = "send" => ~cancelClosed
          /\ unsub[i] = "send2" => ~cancel2Closed


=============================================================================
